---- MODULE Spec2Model ----
(***************************************************************************)
(* Sentinel-LEWS landslide early-warning core: sensor filtering, spatial   *)
(* rainfall interpolation, the per-cell saturation tracker, the infinite-  *)
(* slope Factor-of-Safety model, the risk transform and hotspot selection, *)
(* and the three entry points run_live_simulation, run_demo_event and      *)
(* backtest_event.                                                         *)
(*                                                                         *)
(* Floating point is modelled in fixed point, every quantity an integer    *)
(* multiple of a unit:                                                     *)
(*   rainfall intensity      0.1 mm/hr       saturation       0.001        *)
(*   lengths (depth, water)  1 mm            stresses         1e-5 kPa     *)
(*   unit weights            0.01 kN/m^3     rates (ksat)     1e-10 m/s    *)
(*   slope                   0.1 degree      friction angle   1 degree     *)
(*   trigonometric values    1e-4            FoS              0.01         *)
(*   risk                    1e-4            lat / lon        0.01 degree  *)
(* Divisions round down.  IEEE NaN is the value NaN: arithmetic on it      *)
(* gives NaN, np.clip / np.maximum / np.minimum keep it, and every         *)
(* comparison with it is false.                                            *)
(***************************************************************************)
EXTENDS Integers, Sequences, FiniteSets, TLC

VARIABLES
    fArgs,      \* harness: the static arguments of a compute_fos_vectorized call
    fSat,       \* harness: current_saturation of the latest call (one cell)
    fOut,       \* harness: FoS returned by the latest call
    fPrevSat,   \* harness: current_saturation of the call before it
    fPrevOut,   \* harness: FoS returned by the call before it
    sReadings,  \* harness: the station readings of one cycle
    sClean,     \* harness: what the anomaly filter returned for them
    sField,     \* harness: the rainfall field interpolated from sClean
    sPc,        \* harness: "filter", "interp" or "done"
    entry,      \* the entry point that was called: "live", "cli", "demo", "backtest"
    dataset,    \* the file behind csv_path: [file, loads, cells, months, r30d]
    fallback,   \* backtest_event: the shimla_final_grid.csv it finds by itself
    threshold,  \* config.RISK_THRESHOLD, 0.75 when the configuration has none
    df,         \* the loaded table
    hotspots,   \* run_demo_event: the rows selected as hotspots, best first
    alerts,     \* run_demo_event: the alert messages
    results,    \* backtest_event: the per-month results
    months,     \* backtest_event: the months still to process
    request,    \* the HTTP request behind the call, if there is one
    response,   \* the HTTP response
    replay,     \* the call is made twice with the same station readings
    run,        \* the number of the call: 1 or 2
    firstRun,   \* what each cycle or month of the first call read and computed
    oPc,        \* a second web-mode request in the same process: its position
    oCaptured,  \* its captured_output
    oPrinted,   \* the lines it printed
    oResult,    \* what it returned
    web_mode,   \* argument web_mode
    max_cycles, \* argument max_cycles (None: unbounded)
    horizon,    \* the number of cycles of an unbounded run that are followed
    fusion,     \* "engine" when sentinal.src.core.fusion was imported, else "stub"
    pc,         \* the position of the run
    cycle,      \* local cycle
    readings,   \* local readings
    clean,      \* local clean
    rain_grid,  \* local rain_grid
    saturation, \* local saturation, the only state kept from cycle to cycle
    fos,        \* local fos
    risk,       \* local risk
    alert,      \* whether the latest cycle printed the instability alert
    stdout,     \* sys.stdout: "console" or "captured"
    captured,   \* the lines in captured_output (backtest_event: logs)
    console,    \* the lines written to the real standard output
    result,     \* what the entry point returned
    sleeps,     \* the number of time.sleep(1.0) calls
    printed,    \* history: every line the run has printed
    trace,      \* history: the components run so far in the current cycle
    satWrites,  \* history: the assignments to saturation in the current cycle
    satPrev,    \* history: saturation when the current cycle began
    fosSat,     \* history: the saturation array of the latest FoS call
    fosCalls    \* history: the number of compute_fos_vectorized calls

fosVars == <<fArgs, fSat, fOut, fPrevSat, fPrevOut>>

sensorVars == <<sReadings, sClean, sField, sPc>>

\* the arguments and the environment of a run: fixed once it has started
cfgVars ==
    <<entry, dataset, fallback, threshold, web_mode, max_cycles, horizon, fusion,
      request, replay>>

\* the HTTP response, the repetition of the call, the second request
auxVars == <<response, oPc, oPrinted, oResult>>

\* the repetition of the call
replayVars == <<run, firstRun>>

demoVars == <<hotspots, alerts>>

btVars == <<results, months>>

runVars ==
    <<cfgVars, auxVars, replayVars, oCaptured, df, demoVars, btVars, pc, cycle, readings,
      clean, rain_grid, saturation, fos, risk, alert, stdout, captured, console,
      result, sleeps, printed, trace, satWrites, satPrev, fosSat, fosCalls>>

vars == <<fosVars, sensorVars, runVars>>

----------------------------------------------------------------------------
(* Numeric helpers *)

NaN == 0 - 999999999

None == 0 - 1

Max(a, b) == IF a >= b THEN a ELSE b

Min(a, b) == IF a <= b THEN a ELSE b

\* np.clip(x, lo, hi) = minimum(maximum(x, lo), hi); NaN stays NaN
Clip(x, lo, hi) == IF x = NaN THEN NaN ELSE Min(Max(x, lo), hi)

\* floor(a * b / d) for d > 0 without leaving 32 bits (|b|, d small)
MulDiv(a, b, d) == (a \div d) * b + ((a % d) * b) \div d

\* floor(a * 10^digits / d) for a >= 0, d > 0, by long division
RECURSIVE DivDigits(_, _, _)
DivDigits(a, d, digits) ==
    IF digits = 0 THEN a \div d
    ELSE (a \div d) * (10 ^ digits) + DivDigits((a % d) * 10, d, digits - 1)

\* floor(a * 2^bits / d) for a >= 0, d > 0, by long division
RECURSIVE DivBits(_, _, _)
DivBits(a, d, bits) ==
    IF bits = 0 THEN a \div d
    ELSE (a \div d) * (2 ^ bits) + DivBits((a % d) * 2, d, bits - 1)

SeqMax(s) == CHOOSE m \in {s[i] : i \in DOMAIN s} : \A i \in DOMAIN s : s[i] <= m

----------------------------------------------------------------------------
(* Stability model: fos.py compute_fos_vectorized *)

\* np.clip(slope_deg, 0.1, 89.9), in tenths of a degree
ClipSlope(slope_deg) == Clip(slope_deg, 1, 899)

\* cos(a)^2 of a clipped slope
Cos2(a) ==
    CASE a = 1 -> 10000 [] a = 100 -> 9698 [] a = 200 -> 8830
      [] a = 300 -> 7500 [] a = 450 -> 5000 [] a = 600 -> 2500
      [] a = 899 -> 0

\* sin(a) * cos(a) of a clipped slope
SinCos(a) ==
    CASE a = 1 -> 17 [] a = 100 -> 1710 [] a = 200 -> 3214
      [] a = 300 -> 4330 [] a = 450 -> 5000 [] a = 600 -> 4330
      [] a = 899 -> 17

\* np.tan(np.radians(phi_deg))
TanPhi(phi_deg) ==
    CASE phi_deg = 0 - 30 -> 0 - 5774 [] phi_deg = 0 -> 0
      [] phi_deg = 10 -> 1763 [] phi_deg = 30 -> 5774 [] phi_deg = 45 -> 10000

\* resisting / driving clipped to [0, 10]
FosRatioMutNoClip(resisting, driving) ==
    IF resisting < 0 THEN 0 - DivDigits(0 - resisting, driving, 2)
    ELSE DivDigits(Min(resisting, 20 * driving), driving, 2)

FosRatio(resisting, driving) ==
    IF resisting <= 0 THEN 0
    ELSE IF resisting >= 10 * driving THEN 1000
    ELSE DivDigits(resisting, driving, 2)

\* one cell of compute_fos_vectorized
FosCellMutPoreSign(slope_deg, c, phi_deg, gamma, z, ksat, sat, rain, hours) ==
    IF sat = NaN \/ rain = NaN THEN NaN
    ELSE
    LET a            == ClipSlope(slope_deg)
        cos2         == Cos2(a)
        inf_rate     == Min((rain * 2777) \div 10, ksat)
        h_w          == Clip((sat * z) \div 1000 + (inf_rate * 3 * hours) \div 2500, 0, z)
        sigma_prime  == Max(MulDiv(gamma * z, cos2, 10000) + MulDiv(981 * h_w, cos2, 10000), 0)
        tau          == MulDiv(gamma * z, SinCos(a), 10000)
        resisting    == c + MulDiv(sigma_prime, TanPhi(phi_deg), 10000)
    IN  FosRatio(resisting, Max(tau, 1))

FosCell(slope_deg, c, phi_deg, gamma, z, ksat, sat, rain, hours) ==
    IF sat = NaN \/ rain = NaN THEN NaN
    ELSE
    LET a            == ClipSlope(slope_deg)
        cos2         == Cos2(a)
        tan_phi      == TanPhi(phi_deg)
        rain_rate_ms == (rain * 2777) \div 10
        inf_rate     == Min(rain_rate_ms, ksat)
        \* inf_rate * duration_s / ne, in mm: rate * hours * 3600 * 1e-7 / 0.3
        h_w_rise     == (inf_rate * 3 * hours) \div 2500
        h_w_initial  == (sat * z) \div 1000
        h_w          == Clip(h_w_initial + h_w_rise, 0, z)
        sigma_n      == MulDiv(gamma * z, cos2, 10000)
        u            == MulDiv(981 * h_w, cos2, 10000)
        sigma_prime  == Max(sigma_n - u, 0)
        tau          == MulDiv(gamma * z, SinCos(a), 10000)
        resisting    == c + MulDiv(sigma_prime, tan_phi, 10000)
        driving      == Max(tau, 1)
    IN  FosRatio(resisting, driving)

\* the vectorized call: slope, soil parameters and saturation are arrays of
\* one length, rainfall intensity and duration are scalars
compute_fos_vectorized(slope_deg, soil_params, current_saturation, rainfall_intensity_mmph, duration_hours) ==
    [i \in DOMAIN slope_deg |->
        FosCell(slope_deg[i], soil_params.c[i], soil_params.phi[i],
                soil_params.gamma[i], soil_params.depth[i],
                soil_params.ksat[i], current_saturation[i],
                rainfall_intensity_mmph, duration_hours)]

----------------------------------------------------------------------------
(* Sensors: the station list, the anomaly filter, the rainfall field *)

stations_meta ==
    << [id |-> "S1", lat |-> 3110, lon |-> 7710],
       [id |-> "S2", lat |-> 3120, lon |-> 7720],
       [id |-> "S3", lat |-> 3105, lon |-> 7715] >>

\* readings.append({**s, "val": max(val, 0.0)})
Reading(s, val) == [id |-> s.id, lat |-> s.lat, lon |-> s.lon, val |-> Max(val, 0)]

Vals(rs) == [i \in DOMAIN rs |-> rs[i].val]

\* s with x put before its first element greater than x
RECURSIVE Insert(_, _)
Insert(x, s) ==
    IF s = <<>> THEN <<x>>
    ELSE IF x <= Head(s) THEN <<x>> \o s
    ELSE <<Head(s)>> \o Insert(x, Tail(s))

RECURSIVE Sorted(_)
Sorted(s) == IF s = <<>> THEN <<>> ELSE Insert(Head(s), Sorted(Tail(s)))

\* twice the median of a non-empty sequence of values (the mean of the two
\* middle values when their number is even)
Median2(vals) ==
    LET o == Sorted(vals)
        n == Len(o)
    IN  IF n % 2 = 1 THEN 2 * o[(n + 1) \div 2] ELSE o[n \div 2] + o[n \div 2 + 1]

\* deviation multiplier and physical ceiling (200 mm/hr) of the anomaly filter
K == 4

CEILING == 2000

\* twice the largest value the filter keeps: max(median * K, CEILING)
Threshold2(rs) == Max(Median2(Vals(rs)) * K, 2 * CEILING)

RECURSIVE KeepUpTo(_, _)
KeepUpTo(rs, limit2) ==
    IF rs = <<>> THEN <<>>
    ELSE IF 2 * Head(rs).val <= limit2
         THEN <<Head(rs)>> \o KeepUpTo(Tail(rs), limit2)
         ELSE KeepUpTo(Tail(rs), limit2)

\* the filter of sentinal.src.core.fusion.SensorFusionEngine
EngineFilterMutKeepAll(rs) == rs

EngineFilter(rs) ==
    IF rs = <<>> THEN <<>> ELSE KeepUpTo(rs, Threshold2(rs))

\* the class used when the import of the engine fails
StubFilter(rs) == rs

\* (lat - s.lat)^2 + (lon - s.lon)^2 floored at 1e-6, in 1e-6 degree^2
D2(lat, lon, s) == Max(((lat - s.lat) ^ 2 + (lon - s.lon) ^ 2) * 100, 1)

\* the sum over the stations of val / d2 for one cell, in 1e-4 mm/hr/degree^2
RECURSIVE Accumulate(_, _, _)
Accumulate(cs, lat, lon) ==
    IF cs = <<>> THEN 0
    ELSE (Head(cs).val * 1000) \div D2(lat, lon, Head(cs))
         + Accumulate(Tail(cs), lat, lon)

\* rain_grid /= np.max(rain_grid); rain_grid *= max(val): 0 / 0 is NaN
Rescale(acc, peak, top) ==
    IF peak = 0 THEN NaN ELSE (DivBits(acc, peak, 12) * top) \div 4096

\* the rainfall field of run_live_simulation for a grid of one cell or more
RainField(cs, lat, lon) ==
    IF cs = <<>> THEN [i \in DOMAIN lat |-> 0]
    ELSE LET acc  == [i \in DOMAIN lat |-> Accumulate(cs, lat[i], lon[i])]
             peak == SeqMax(acc)
             top  == SeqMax(Vals(cs))
         IN  [i \in DOMAIN lat |-> Rescale(acc[i], peak, top)]

\* np.max(rain_grid) and rain_grid.max() raise ValueError on an empty grid
RainFieldRaises(lat) == lat = <<>>

\* rain_grid.max(): NaN when any cell is NaN
FieldMax(field) ==
    IF \E i \in DOMAIN field : field[i] = NaN THEN NaN ELSE SeqMax(field)

----------------------------------------------------------------------------
(* Risk transform *)

\* 1 / (1 + exp(t)) for t = -10, -9.95 .. 10
LogisticTable ==
    << 10000, 10000, 9999, 9999, 9999, 9999, 9999, 9999, 9999, 9999, 9999, 9999,
       9999, 9999, 9999, 9999, 9999, 9999, 9999, 9999, 9999, 9999, 9999, 9999,
       9998, 9998, 9998, 9998, 9998, 9998, 9998, 9998, 9998, 9998, 9998, 9997,
       9997, 9997, 9997, 9997, 9997, 9996, 9996, 9996, 9996, 9996, 9995, 9995,
       9995, 9995, 9994, 9994, 9994, 9994, 9993, 9993, 9993, 9992, 9992, 9991,
       9991, 9990, 9990, 9989, 9989, 9988, 9988, 9987, 9986, 9986, 9985, 9984,
       9983, 9983, 9982, 9981, 9980, 9979, 9978, 9976, 9975, 9974, 9973, 9971,
       9970, 9968, 9967, 9965, 9963, 9961, 9959, 9957, 9955, 9953, 9950, 9948,
       9945, 9942, 9939, 9936, 9933, 9930, 9926, 9922, 9918, 9914, 9910, 9905,
       9900, 9895, 9890, 9885, 9879, 9873, 9866, 9859, 9852, 9845, 9837, 9829,
       9820, 9811, 9802, 9792, 9781, 9770, 9759, 9747, 9734, 9721, 9707, 9692,
       9677, 9661, 9644, 9627, 9608, 9589, 9569, 9548, 9526, 9503, 9478, 9453,
       9427, 9399, 9370, 9340, 9309, 9276, 9241, 9206, 9168, 9129, 9089, 9047,
       9002, 8957, 8909, 8859, 8808, 8754, 8699, 8641, 8581, 8520, 8455, 8389,
       8320, 8249, 8176, 8100, 8022, 7941, 7858, 7773, 7685, 7595, 7503, 7408,
       7311, 7211, 7109, 7006, 6900, 6792, 6682, 6570, 6457, 6341, 6225, 6106,
       5987, 5866, 5744, 5622, 5498, 5374, 5250, 5125, 5000, 4875, 4750, 4626,
       4502, 4378, 4256, 4134, 4013, 3894, 3775, 3659, 3543, 3430, 3318, 3208,
       3100, 2994, 2891, 2789, 2689, 2592, 2497, 2405, 2315, 2227, 2142, 2059,
       1978, 1900, 1824, 1751, 1680, 1611, 1545, 1480, 1419, 1359, 1301, 1246,
       1192, 1141, 1091, 1043, 998, 953, 911, 871, 832, 794, 759, 724,
       691, 660, 630, 601, 573, 547, 522, 497, 474, 452, 431, 411,
       392, 373, 356, 339, 323, 308, 293, 279, 266, 253, 241, 230,
       219, 208, 198, 189, 180, 171, 163, 155, 148, 141, 134, 127,
       121, 115, 110, 105, 100, 95, 90, 86, 82, 78, 74, 70,
       67, 64, 61, 58, 55, 52, 50, 47, 45, 43, 41, 39,
       37, 35, 33, 32, 30, 29, 27, 26, 25, 24, 22, 21,
       20, 19, 18, 17, 17, 16, 15, 14, 14, 13, 12, 12,
       11, 11, 10, 10, 9, 9, 8, 8, 7, 7, 7, 6,
       6, 6, 6, 5, 5, 5, 5, 4, 4, 4, 4, 4,
       3, 3, 3, 3, 3, 3, 2, 2, 2, 2, 2, 2,
       2, 2, 2, 2, 2, 1, 1, 1, 1, 1, 1, 1,
       1, 1, 1, 1, 1, 1, 1, 1, 1, 1, 1, 1,
       1, 1, 1, 0, 0 >>

\* 1 / (1 + exp(t20 / 20)); NaN for NaN
Logistic(t20) ==
    IF t20 = NaN THEN NaN
    ELSE IF t20 < 0 - 200 THEN 10000
    ELSE IF t20 > 200 THEN 0
    ELSE LogisticTable[t20 + 201]

\* risk = 1.0 / (1.0 + np.exp(10.0 * (fos - 1.0)))
LiveRisk(f) == IF f = NaN THEN NaN ELSE Logistic(2 * (f - 100))

\* getattr(config, 'RISK_THRESHOLD', 0.75): the default
RISK_THRESHOLD == 7500

----------------------------------------------------------------------------
(* Datasets *)

CellA ==
    [lat |-> 3110, lon |-> 7710, slope |-> 300, c |-> 500000, phi |-> 30,
     gamma |-> 1800, depth |-> 2000, ksat |-> 10000]

CellB ==
    [lat |-> 3115, lon |-> 7715, slope |-> 450, c |-> 2000000, phi |-> 30,
     gamma |-> 1800, depth |-> 2000, ksat |-> 100000]

Column(cells, name) == [i \in DOMAIN cells |-> cells[i][name]]

\* no file at csv_path
NoFile == [file |-> FALSE, loads |-> FALSE, cells |-> <<>>, months |-> {}, r30d |-> <<>>]

\* a file that load_shimla_data or estimate_soil_parameters rejects, or that
\* lacks a column the entry point reads
BadFile == [file |-> TRUE, loads |-> FALSE, cells |-> <<>>, months |-> {}, r30d |-> <<>>]

\* a table with its columns and no row
EmptyFile == [file |-> TRUE, loads |-> TRUE, cells |-> <<>>, months |-> {}, r30d |-> <<>>]

\* a table of cells, the historical month columns it has, and its R_30d
\* column in mm (<<>>: no such column)
GridFile(cells, monthCols, r30d) ==
    [file |-> TRUE, loads |-> TRUE, cells |-> cells, months |-> monthCols, r30d |-> r30d]

----------------------------------------------------------------------------
(* Output and return *)

Pending == [status |-> "pending", logs |-> <<>>]

\* a bare return, or falling off the end of the function
PyNone == [status |-> "None", logs |-> <<>>]

\* a printed line: what it reports, and the cycle number for a cycle header
\* (the figures in the other lines are left out)
Line(tag, n) == <<tag, n>>

\* print(...) of the run: the lines go where sys.stdout points, which is the
\* run's captured_output, the other request's, or the console
EmitTo(stream, lines) ==
    /\ printed' = printed \o lines
    /\ captured' = IF stream = "captured" THEN captured \o lines ELSE captured
    /\ oCaptured' = IF stream = "other" THEN oCaptured \o lines ELSE oCaptured
    /\ console' = IF stream = "console" THEN console \o lines ELSE console

Emit(lines) == EmitTo(stdout, lines)

\* return res, through the finally clause
Return(res) ==
    /\ result' = res
    /\ pc' = "done"
    /\ stdout' = IF web_mode THEN "console" ELSE stdout

\* the handler replaced by one that lets the exception through
RaiseMutPropagate(lines) ==
    /\ Emit(lines)
    /\ Return([status |-> "raised", logs |-> <<>>])

\* lines are printed, then the body raises: except Exception as e prints the
\* error and returns Error with the captured text
Raise(lines) ==
    /\ Emit(lines \o <<Line("error", 0)>>)
    /\ Return([status |-> "Error", logs |-> captured'])

Except == Raise(<<>>)

\* what only the monitoring cycles use
cycleVars ==
    <<cycle, readings, clean, rain_grid, saturation, alert, sleeps, trace,
      satWrites, satPrev>>

----------------------------------------------------------------------------
(* run_live_simulation *)

\* max(0.0, 25.0 + 25.0 * np.sin(cycle * 0.4)) for cycle = 1 .. 16
BaseRainTable ==
    <<347, 429, 483, 500, 477, 419, 334, 235, 139, 61, 12, 1, 29, 92, 180, 279>>

base_rain(c) == BaseRainTable[c]

\* the draws of random.uniform(-5, 5) that are followed
Noise == {0 - 50, 50}

\* saturation * decay_rate + added_sat, clipped to [0.05, 1.0]
SatCell(prev, rain) ==
    IF prev = NaN \/ rain = NaN THEN NaN
    ELSE Clip((prev * 985) \div 1000 + (rain * 8) \div 100, 50, 1000)

\* the alert raised from 5 % on
WidespreadMutAtLeast(f) ==
    Cardinality({i \in DOMAIN f : f[i] # NaN /\ f[i] < 100}) * 100 >= 5 * Len(f)

\* np.mean(fos < 1.0) > 0.05
Widespread(f) ==
    Cardinality({i \in DOMAIN f : f[i] # NaN /\ f[i] < 100}) * 100 > 5 * Len(f)

\* lines 22-29: redirect sys.stdout when web_mode, print the banner
LiveEnter ==
    /\ entry = "live"
    /\ pc = "enter"
    /\ stdout' = IF web_mode THEN "captured" ELSE stdout
    /\ EmitTo(stdout', <<Line("banner", 0), Line("mode", 0), Line("status", 0)>>)
    /\ pc' = "check"
    /\ UNCHANGED <<cfgVars, auxVars, replayVars, df, demoVars, btVars, cycle,
                   readings, clean, rain_grid, saturation, fos, risk, alert,
                   result, sleeps, trace, satWrites, satPrev, fosSat, fosCalls>>
    /\ UNCHANGED <<fosVars, sensorVars>>

\* lines 32-36: no dataset
LiveMissing ==
    /\ entry = "live"
    /\ pc = "check"
    /\ ~dataset.file
    /\ Emit(<<Line("missing", 0)>>)
    /\ Return(IF web_mode THEN [status |-> "Error", logs |-> captured'] ELSE PyNone)
    /\ UNCHANGED <<cfgVars, auxVars, replayVars, df, demoVars, btVars, cycle,
                   readings, clean, rain_grid, saturation, fos, risk, alert,
                   sleeps, trace, satWrites, satPrev, fosSat, fosCalls>>
    /\ UNCHANGED <<fosVars, sensorVars>>

\* the saturation memory kept at module level and initialised once
LiveLoadMutKeepsSaturation ==
    /\ entry = "live"
    /\ pc = "check"
    /\ dataset.file
    /\ dataset.loads
    /\ df' = dataset
    /\ saturation' = IF Len(saturation) = Len(dataset.cells) /\ saturation # <<>>
                     THEN saturation
                     ELSE [i \in DOMAIN dataset.cells |-> 200]
    /\ cycle' = 0
    /\ pc' = "loop"
    /\ UNCHANGED <<cfgVars, auxVars, replayVars, demoVars, btVars,
                   readings, clean, rain_grid, fos, risk, alert, stdout, captured,
                   oCaptured, console, result, sleeps, printed, trace, satWrites,
                   satPrev, fosSat, fosCalls>>
    /\ UNCHANGED <<fosVars, sensorVars>>

\* lines 38-69: load the table, build the static grids, saturation = 0.2
LiveLoad ==
    /\ entry = "live"
    /\ pc = "check"
    /\ dataset.file
    /\ dataset.loads
    /\ df' = dataset
    /\ saturation' = [i \in DOMAIN dataset.cells |-> 200]
    /\ cycle' = 0
    /\ pc' = "loop"
    /\ UNCHANGED <<cfgVars, auxVars, replayVars, demoVars, btVars,
                   readings, clean, rain_grid, fos, risk, alert, stdout, captured, oCaptured,
                   console, result, sleeps, printed, trace, satWrites, satPrev,
                   fosSat, fosCalls>>
    /\ UNCHANGED <<fosVars, sensorVars>>

\* lines 38-53 raising: the loader fails or a column is missing
LiveLoadFails ==
    /\ entry = "live"
    /\ pc = "check"
    /\ dataset.file
    /\ ~dataset.loads
    /\ Except
    /\ UNCHANGED <<cfgVars, auxVars, replayVars, df, demoVars, btVars, cycle,
                   readings, clean, rain_grid, saturation, fos, risk, alert,
                   sleeps, trace, satWrites, satPrev, fosSat, fosCalls>>
    /\ UNCHANGED <<fosVars, sensorVars>>

\* lines 73-75 and 151-159: the cycle limit is reached
LiveStop ==
    /\ entry = "live"
    /\ pc = "loop"
    /\ max_cycles # None
    /\ cycle >= max_cycles
    /\ Emit(<<Line("stop", max_cycles)>>)
    /\ Return(IF web_mode THEN [status |-> "Success", logs |-> captured'] ELSE PyNone)
    /\ UNCHANGED <<cfgVars, auxVars, replayVars, df, demoVars, btVars, cycle,
                   readings, clean, rain_grid, saturation, fos, risk, alert,
                   sleeps, trace, satWrites, satPrev, fosSat, fosCalls>>
    /\ UNCHANGED <<fosVars, sensorVars>>

\* lines 77-78: the next cycle begins
BeginCycleMutOffByOne ==
    /\ entry \in {"live", "cli"}
    /\ pc = "loop"
    /\ max_cycles = None \/ cycle <= max_cycles
    /\ cycle < horizon
    /\ cycle' = cycle + 1
    /\ Emit(<<Line("cycle", cycle')>>)
    /\ pc' = "gen"
    /\ trace' = <<>>
    /\ satWrites' = 0
    /\ satPrev' = saturation
    /\ readings' = <<>> /\ clean' = <<>> /\ rain_grid' = <<>>
    /\ fos' = <<>> /\ risk' = <<>>
    /\ UNCHANGED <<cfgVars, auxVars, replayVars, df, demoVars, btVars,
                   saturation, alert, stdout, result, sleeps, fosSat, fosCalls>>
    /\ UNCHANGED <<fosVars, sensorVars>>

\* the values of the cycle before are dead here: each is assigned again
\* before it is read, so the model forgets them
BeginCycle ==
    /\ entry \in {"live", "cli"}
    /\ pc = "loop"
    /\ max_cycles = None \/ cycle < max_cycles
    /\ cycle < horizon
    /\ cycle' = cycle + 1
    /\ Emit(<<Line("cycle", cycle')>>)
    /\ pc' = "gen"
    /\ trace' = <<>>
    /\ satWrites' = 0
    /\ satPrev' = saturation
    /\ readings' = <<>> /\ clean' = <<>> /\ rain_grid' = <<>>
    /\ fos' = <<>> /\ risk' = <<>>
    /\ UNCHANGED <<cfgVars, auxVars, replayVars, df, demoVars, btVars,
                   saturation, alert, stdout, result, sleeps, fosSat, fosCalls>>
    /\ UNCHANGED <<fosVars, sensorVars>>

\* what a cycle read and computed
Outcome(rs, sat, f, r) == [readings |-> rs, saturation |-> sat, fos |-> f, risk |-> r]

\* lines 83-90: one reading per station, a fault with probability 0.1
GenReadings ==
    /\ pc = "gen"
    /\ IF run = 2
       THEN \* the same station readings as in the first call
            readings' = firstRun[cycle].readings
       ELSE \E noise \in [1..3 -> Noise], fault \in [1..3 -> BOOLEAN] :
               readings' = [i \in 1..3 |->
                   Reading(stations_meta[i],
                           IF fault[i] THEN 99990 ELSE base_rain(cycle) + noise[i])]
    /\ firstRun' = IF replay /\ run = 1
                   THEN Append(firstRun, Outcome(readings', <<>>, <<>>, <<>>))
                   ELSE firstRun
    /\ pc' = "filter"
    /\ UNCHANGED <<cfgVars, auxVars, run, df, demoVars, btVars, cycle,
                   clean, rain_grid, saturation, fos, risk, alert, stdout,
                   captured, oCaptured, console, result, sleeps, printed, trace, satWrites,
                   satPrev, fosSat, fosCalls>>
    /\ UNCHANGED <<fosVars, sensorVars>>

\* lines 92-93
filter_anomalies(readings_) ==
    IF fusion = "engine" THEN EngineFilter(readings_) ELSE StubFilter(readings_)

Filter ==
    /\ pc = "filter"
    /\ clean' = filter_anomalies(readings)
    /\ Emit(<<Line("sensors", 0)>>)
    /\ trace' = Append(trace, "filter")
    /\ pc' = "interp"
    /\ UNCHANGED <<cfgVars, auxVars, replayVars, df, demoVars, btVars, cycle,
                   readings, rain_grid, saturation, fos, risk, alert, stdout,
                   result, sleeps, satWrites, satPrev, fosSat, fosCalls>>
    /\ UNCHANGED <<fosVars, sensorVars>>

\* lines 95-110
Interpolate ==
    /\ pc = "interp"
    /\ ~RainFieldRaises(Column(df.cells, "lat"))
    /\ rain_grid' = RainField(clean, Column(df.cells, "lat"),
                              Column(df.cells, "lon"))
    /\ Emit(<<Line("maxrain", 0)>>)
    /\ trace' = Append(trace, "interp")
    /\ pc' = "sat"
    /\ UNCHANGED <<cfgVars, auxVars, replayVars, df, demoVars, btVars, cycle,
                   readings, clean, saturation, fos, risk, alert, stdout,
                   result, sleeps, satWrites, satPrev, fosSat, fosCalls>>
    /\ UNCHANGED <<fosVars, sensorVars>>

\* lines 107 / 110 raising ValueError on a table without rows
InterpolateFails ==
    /\ entry = "live"
    /\ pc = "interp"
    /\ RainFieldRaises(Column(df.cells, "lat"))
    /\ Except
    /\ UNCHANGED <<cfgVars, auxVars, replayVars, df, demoVars, btVars, cycle,
                   readings, clean, rain_grid, saturation, fos, risk, alert,
                   sleeps, trace, satWrites, satPrev, fosSat, fosCalls>>
    /\ UNCHANGED <<fosVars, sensorVars>>

\* lines 115-119
UpdateSaturation ==
    /\ pc = "sat"
    /\ saturation' = [i \in DOMAIN saturation |-> SatCell(saturation[i], rain_grid[i])]
    /\ satWrites' = satWrites + 1
    /\ Emit(<<Line("avgsat", 0)>>)
    /\ trace' = Append(trace, "sat")
    /\ pc' = "fos"
    /\ UNCHANGED <<cfgVars, auxVars, replayVars, df, demoVars, btVars, cycle,
                   readings, clean, rain_grid, fos, risk, alert, stdout, result,
                   sleeps, satPrev, fosSat, fosCalls>>
    /\ UNCHANGED <<fosVars, sensorVars>>

SoilParams(cells) ==
    [c |-> Column(cells, "c"), phi |-> Column(cells, "phi"),
     gamma |-> Column(cells, "gamma"), depth |-> Column(cells, "depth"),
     ksat |-> Column(cells, "ksat")]

\* the stability model fed the saturation of the cycle before
ComputeFosMutStale ==
    /\ pc = "fos"
    /\ fos' = compute_fos_vectorized(Column(df.cells, "slope"),
                  SoilParams(df.cells), satPrev, FieldMax(rain_grid), 6)
    /\ fosSat' = satPrev
    /\ fosCalls' = fosCalls + 1
    /\ trace' = Append(trace, "fos")
    /\ pc' = "risk"
    /\ UNCHANGED <<cfgVars, auxVars, replayVars, df, demoVars, btVars, cycle,
                   readings, clean, rain_grid, saturation, risk, alert, stdout,
                   captured, oCaptured, console, result, sleeps, printed, satWrites, satPrev>>
    /\ UNCHANGED <<fosVars, sensorVars>>

\* lines 124-131
ComputeFos ==
    /\ pc = "fos"
    /\ fos' = compute_fos_vectorized(Column(df.cells, "slope"),
                  SoilParams(df.cells), saturation, FieldMax(rain_grid), 6)
    /\ fosSat' = saturation
    /\ fosCalls' = fosCalls + 1
    /\ trace' = Append(trace, "fos")
    /\ pc' = "risk"
    /\ UNCHANGED <<cfgVars, auxVars, replayVars, df, demoVars, btVars, cycle,
                   readings, clean, rain_grid, saturation, risk, alert, stdout,
                   captured, oCaptured, console, result, sleeps, printed, satWrites, satPrev>>
    /\ UNCHANGED <<fosVars, sensorVars>>

\* lines 136-145
RiskAndAlert ==
    /\ pc = "risk"
    /\ risk' = [i \in DOMAIN fos |-> LiveRisk(fos[i])]
    /\ alert' = Widespread(fos)
    /\ firstRun' = IF replay /\ run = 1
                   THEN [firstRun EXCEPT ![cycle] = Outcome(readings, saturation, fos, risk')]
                   ELSE firstRun
    /\ Emit(<<Line("unstable", 0)>>
             \o (IF Widespread(fos) THEN <<Line("alert", 0)>> ELSE <<>>))
    /\ sleeps' = IF web_mode THEN sleeps ELSE sleeps + 1
    /\ trace' = Append(trace, "risk")
    /\ pc' = "loop"
    /\ UNCHANGED <<cfgVars, auxVars, run, df, demoVars, btVars, cycle,
                   readings, clean, rain_grid, saturation, fos, stdout, result,
                   satWrites, satPrev, fosSat, fosCalls>>
    /\ UNCHANGED <<fosVars, sensorVars>>

----------------------------------------------------------------------------
(* run_live_loop: the command-line loop of src/run_live_sim.py, which has   *)
(* no cycle limit, no output capture and no exception handler              *)

\* lines 21-30: the banner, then no dataset
CliMissing ==
    /\ entry = "cli"
    /\ pc = "enter"
    /\ ~dataset.file
    /\ Emit(<<Line("banner", 0), Line("mode", 0), Line("status", 0),
              Line("ctrlc", 0), Line("missing", 0)>>)
    /\ Return(PyNone)
    /\ UNCHANGED <<cfgVars, auxVars, replayVars, df, demoVars, btVars, cycle,
                   readings, clean, rain_grid, saturation, fos, risk, alert,
                   sleeps, trace, satWrites, satPrev, fosSat, fosCalls>>
    /\ UNCHANGED <<fosVars, sensorVars>>

\* lines 21-63: the banner, the table, the static grids, saturation = 0.2
CliLoad ==
    /\ entry = "cli"
    /\ pc = "enter"
    /\ dataset.file
    /\ dataset.loads
    /\ Emit(<<Line("banner", 0), Line("mode", 0), Line("status", 0),
              Line("ctrlc", 0)>>)
    /\ df' = dataset
    /\ saturation' = [i \in DOMAIN dataset.cells |-> 200]
    /\ cycle' = 0
    /\ pc' = "loop"
    /\ UNCHANGED <<cfgVars, auxVars, replayVars, demoVars, btVars,
                   readings, clean, rain_grid, fos, risk, alert, stdout,
                   result, sleeps, trace, satWrites, satPrev, fosSat, fosCalls>>
    /\ UNCHANGED <<fosVars, sensorVars>>

----------------------------------------------------------------------------
(* run_demo_event *)

\* initial_sat: 0.5, or np.clip(df['R_30d'] / 500.0, 0.0, 0.9)
initial_sat(d) ==
    IF d.r30d = <<>>
    THEN [i \in DOMAIN d.cells |-> 500]
    ELSE [i \in DOMAIN d.cells |-> Clip(2 * d.r30d[i], 0, 900)]

\* the residuals the ML model may predict (the fallback model predicts 0)
Residuals == {0, 0 - 10}

\* fos_to_risk
fos_to_risk(f) == Logistic(2 * (f - 100))

\* df[df['risk'] > threshold]: the rows above the threshold, in table order
RowsAbove(r, th) ==
    SelectSeq([i \in 1..Len(r) |-> i], LAMBDA i : r[i] # NaN /\ r[i] > th)

\* row i sorts before row j; equal risks fall as the sort leaves them
Before(i, j, r, tie) == r[i] > r[j] \/ (r[i] = r[j] /\ (IF tie THEN i < j ELSE i > j))

RECURSIVE InsertRow(_, _, _, _)
InsertRow(i, rows, r, tie) ==
    IF rows = <<>> THEN <<i>>
    ELSE IF Before(i, Head(rows), r, tie) THEN <<i>> \o rows
    ELSE <<Head(rows)>> \o InsertRow(i, Tail(rows), r, tie)

\* sort_values('risk', ascending=False)
RECURSIVE sort_values(_, _, _)
sort_values(rows, r, tie) ==
    IF rows = <<>> THEN <<>>
    ELSE InsertRow(Head(rows), sort_values(Tail(rows), r, tie), r, tie)

\* the selection without its limit
headMutAll(rows, n) == rows

\* .head(n)
head(rows, n) == SubSeq(rows, 1, Min(n, Len(rows)))

\* the number of hotspots kept
TopHotspots == 10

\* generate_sms: risk to two decimals, the position, FoS to two decimals
generate_sms(lat, lon, r, f) ==
    [lat |-> lat, lon |-> lon, risk |-> (r + 50) \div 100, fos |-> f]

\* lines 39-47: redirect sys.stdout when web_mode, print the banner
DemoEnter ==
    /\ entry = "demo"
    /\ pc = "enter"
    /\ stdout' = IF web_mode THEN "captured" ELSE stdout
    /\ EmitTo(stdout', <<Line("banner", 0)>>)
    /\ pc' = "check"
    /\ UNCHANGED <<cfgVars, auxVars, replayVars, df, demoVars, btVars, cycleVars, fos, risk, result,
                   fosSat, fosCalls>>
    /\ UNCHANGED <<fosVars, sensorVars>>

\* lines 50-54: no dataset
DemoMissing ==
    /\ entry = "demo"
    /\ pc = "check"
    /\ ~dataset.file
    /\ Emit(<<Line("missing", 0)>>)
    /\ Return(IF web_mode THEN [status |-> "Error", logs |-> captured'] ELSE PyNone)
    /\ UNCHANGED <<cfgVars, auxVars, replayVars, df, demoVars, btVars, cycleVars, fos, risk,
                   fosSat, fosCalls>>
    /\ UNCHANGED <<fosVars, sensorVars>>

\* lines 56-63: load the table and print its statistics
DemoLoad ==
    /\ entry = "demo"
    /\ pc = "check"
    /\ dataset.file
    /\ dataset.loads
    /\ df' = dataset
    /\ Emit(<<Line("stats", 0), Line("slope", 0), Line("elev", 0)>>)
    /\ pc' = "d_physics"
    /\ UNCHANGED <<cfgVars, auxVars, replayVars, demoVars, btVars, cycleVars, fos, risk, stdout,
                   result, fosSat, fosCalls>>
    /\ UNCHANGED <<fosVars, sensorVars>>

\* lines 56-63 raising: the loader fails or a column is missing
DemoLoadFails ==
    /\ entry = "demo"
    /\ pc = "check"
    /\ dataset.file
    /\ ~dataset.loads
    /\ Except
    /\ UNCHANGED <<cfgVars, auxVars, replayVars, df, demoVars, btVars, cycleVars, fos, risk,
                   fosSat, fosCalls>>
    /\ UNCHANGED <<fosVars, sensorVars>>

\* lines 66-90: the design storm of 50 mm/hr for 12 hours
DemoPhysics ==
    /\ pc = "d_physics"
    /\ fos' = compute_fos_vectorized(Column(df.cells, "slope"),
                  SoilParams(df.cells), initial_sat(df), 500, 12)
    /\ fosSat' = initial_sat(df)
    /\ fosCalls' = fosCalls + 1
    /\ pc' = "d_risk"
    /\ UNCHANGED <<cfgVars, auxVars, replayVars, df, demoVars, btVars, cycleVars, risk, stdout,
                   captured, oCaptured, console, result, printed>>
    /\ UNCHANGED <<fosVars, sensorVars>>

\* lines 93-106: fos_final = fos_values + residual, risk = fos_to_risk(fos_final)
DemoRisk ==
    /\ pc = "d_risk"
    /\ \E residual \in [DOMAIN fos -> Residuals] :
          /\ fos' = [i \in DOMAIN fos |-> fos[i] + residual[i]]
          /\ risk' = [i \in DOMAIN fos |-> fos_to_risk(fos[i] + residual[i])]
    /\ pc' = "d_hotspots"
    /\ UNCHANGED <<cfgVars, auxVars, replayVars, df, demoVars, btVars, cycleVars, stdout, captured, oCaptured,
                   console, result, printed, fosSat, fosCalls>>
    /\ UNCHANGED <<fosVars, sensorVars>>

\* lines 109-111: the rows above the threshold, highest risk first, ten at most
DemoHotspots ==
    /\ pc = "d_hotspots"
    /\ \E tie \in BOOLEAN :
          hotspots' = head(sort_values(RowsAbove(risk, threshold), risk, tie),
                           TopHotspots)
    /\ pc' = "d_alerts"
    /\ UNCHANGED <<cfgVars, auxVars, replayVars, df, alerts, btVars, cycleVars, fos, risk, stdout,
                   captured, oCaptured, console, result, printed, fosSat, fosCalls>>
    /\ UNCHANGED <<fosVars, sensorVars>>

\* lines 114-122: one alert per hotspot, or the notice that there is none
DemoAlerts ==
    /\ pc = "d_alerts"
    /\ alerts' = [k \in DOMAIN hotspots |->
                    generate_sms(df.cells[hotspots[k]].lat, df.cells[hotspots[k]].lon,
                                 risk[hotspots[k]], fos[hotspots[k]])]
    /\ Emit(<<Line("hotspots", 0)>>
             \o [k \in DOMAIN hotspots |-> Line("sms", 0)]
             \o (IF hotspots = <<>> THEN <<Line("none", 0)>> ELSE <<>>))
    /\ pc' = "d_metrics"
    /\ UNCHANGED <<cfgVars, auxVars, replayVars, df, hotspots, btVars, cycleVars, fos, risk, stdout,
                   result, fosSat, fosCalls>>
    /\ UNCHANGED <<fosVars, sensorVars>>

\* lines 124-135: the metrics, and whether the run took more than 15 s
DemoMetrics ==
    /\ pc = "d_metrics"
    /\ \E slow \in BOOLEAN :
          Emit(<<Line("metrics", 0), Line("time", 0), Line("peak", 0), Line("minfos", 0),
                 Line(IF slow THEN "warning" ELSE "success", 0)>>)
    /\ pc' = "d_heatmap"
    /\ UNCHANGED <<cfgVars, auxVars, replayVars, df, demoVars, btVars, cycleVars, fos, risk, stdout,
                   result, fosSat, fosCalls>>
    /\ UNCHANGED <<fosVars, sensorVars>>

\* lines 138-192 and 198-207: the heatmap is drawn and the run returns
DemoHeatmap ==
    /\ pc = "d_heatmap"
    /\ Emit(<<Line("heatmap", 0), Line("saved", 0)>>)
    /\ Return(IF web_mode THEN [status |-> "Success", logs |-> captured'] ELSE PyNone)
    /\ UNCHANGED <<cfgVars, auxVars, replayVars, df, demoVars, btVars, cycleVars, fos, risk,
                   fosSat, fosCalls>>
    /\ UNCHANGED <<fosVars, sensorVars>>

\* lines 138-192 raising: the plotting library or the file system fails
DemoHeatmapFails ==
    /\ pc = "d_heatmap"
    /\ Raise(<<Line("heatmap", 0)>>)
    /\ UNCHANGED <<cfgVars, auxVars, replayVars, df, demoVars, btVars, cycleVars, fos, risk,
                   fosSat, fosCalls>>
    /\ UNCHANGED <<fosVars, sensorVars>>

----------------------------------------------------------------------------
(* backtest_event *)

\* output(...): print into the function's own buffer
Output(lines) ==
    /\ printed' = printed \o lines
    /\ captured' = captured \o lines
    /\ UNCHANGED <<console, oCaptured>>

\* the file the run reads: csv_path, or else the grid it finds by itself
Chosen == IF dataset.file THEN dataset ELSE fallback

\* months = ['2023-06-01', '2023-07-01'], those that are columns of the table
available_months(d) ==
    SelectSeq(<<"2023-06-01", "2023-07-01">>, LAMBDA m : m \in d.months)

\* if '07-01' in month: 45 mm/hr, else 10 mm/hr
intensity_mmph(month) == IF month = "2023-07-01" THEN 450 ELSE 100

\* if '07-01' in month: 0.8, else 0.4
saturation_proxy(month) == IF month = "2023-07-01" THEN 800 ELSE 400

\* risk = 1.0 / (1.0 + np.exp(5.0 * (fos_values - 1.1)))
BacktestRisk(f) == Logistic(f - 110)

\* int(np.sum(risk > 0.8))
CountHotspots(r) == Cardinality({i \in DOMAIN r : r[i] > 8000})

\* lines 15-22
BtEnter ==
    /\ entry = "backtest"
    /\ pc = "enter"
    /\ Output(<<Line("banner", 0), Line("event", 0), Line("goal", 0)>>)
    /\ pc' = "check"
    /\ UNCHANGED <<cfgVars, auxVars, replayVars, df, demoVars, btVars, cycleVars, fos, risk, stdout,
                   result, fosSat, fosCalls>>
    /\ UNCHANGED <<fosVars, sensorVars>>

\* a run without data that reports Success
BtNotFoundMutSuccess ==
    /\ entry = "backtest"
    /\ pc = "check"
    /\ ~Chosen.file
    /\ Output(<<Line("missing", 0)>>)
    /\ result' = [status |-> "Success", logs |-> captured']
    /\ pc' = "done"
    /\ UNCHANGED <<cfgVars, auxVars, replayVars, df, demoVars, btVars, cycleVars, fos, risk, stdout,
                   fosSat, fosCalls>>
    /\ UNCHANGED <<fosVars, sensorVars>>

\* lines 26-41: neither csv_path nor a grid of its own
BtNotFound ==
    /\ entry = "backtest"
    /\ pc = "check"
    /\ ~Chosen.file
    /\ Output(<<Line("missing", 0)>>)
    /\ result' = [status |-> "Error", logs |-> captured']
    /\ pc' = "done"
    /\ UNCHANGED <<cfgVars, auxVars, replayVars, df, demoVars, btVars, cycleVars, fos, risk, stdout,
                   fosSat, fosCalls>>
    /\ UNCHANGED <<fosVars, sensorVars>>

\* lines 44-65: load the table, find the month columns
BtLoad ==
    /\ entry = "backtest"
    /\ pc = "check"
    /\ Chosen.file
    /\ Chosen.loads
    /\ df' = Chosen
    /\ months' = available_months(Chosen)
    /\ results' = <<>>
    /\ Output(IF available_months(Chosen) = <<>>
              THEN <<Line("nomonths", 0), Line("columns", 0)>> ELSE <<>>)
    /\ pc' = "b_month"
    /\ UNCHANGED <<cfgVars, auxVars, replayVars, demoVars, cycleVars, fos, risk, stdout, result,
                   fosSat, fosCalls>>
    /\ UNCHANGED <<fosVars, sensorVars>>

\* lines 44-45 raising, 129-131
BtLoadFails ==
    /\ entry = "backtest"
    /\ pc = "check"
    /\ Chosen.file
    /\ ~Chosen.loads
    /\ Output(<<Line("error", 0)>>)
    /\ result' = [status |-> "Error", logs |-> captured']
    /\ pc' = "done"
    /\ UNCHANGED <<cfgVars, auxVars, replayVars, df, demoVars, btVars, cycleVars, fos, risk, stdout,
                   fosSat, fosCalls>>
    /\ UNCHANGED <<fosVars, sensorVars>>

\* lines 67-110: one month
BtMonth ==
    /\ pc = "b_month"
    /\ months # <<>>
    /\ fos' = compute_fos_vectorized(Column(df.cells, "slope"), SoilParams(df.cells),
                  [i \in DOMAIN df.cells |-> saturation_proxy(Head(months))],
                  intensity_mmph(Head(months)), 6)
    /\ fosSat' = [i \in DOMAIN df.cells |-> saturation_proxy(Head(months))]
    /\ fosCalls' = fosCalls + 1
    /\ risk' = [i \in DOMAIN fos' |-> BacktestRisk(fos'[i])]
    /\ results' = Append(results,
                     [month |-> Head(months), hotspots |-> CountHotspots(risk'),
                      intensity |-> intensity_mmph(Head(months))])
    /\ Output(<<Line("month", 0), Line("intensity", 0), Line("result", 0), Line("perf", 0)>>)
    /\ months' = Tail(months)
    /\ firstRun' = IF replay /\ run = 1
                   THEN Append(firstRun, Outcome(<<Head(months)>>, fosSat', fos', risk'))
                   ELSE firstRun
    /\ UNCHANGED <<cfgVars, auxVars, run, df, demoVars, cycleVars, stdout, result, pc>>
    /\ UNCHANGED <<fosVars, sensorVars>>

\* lines 112-127: the summary and the return
BtSummary ==
    /\ pc = "b_month"
    /\ months = <<>>
    /\ Output(<<Line("summary", 0)>>
              \o (IF results = <<>> THEN <<Line("nodata", 0)>> ELSE <<>>)
              \o [k \in DOMAIN results |-> Line("row", 0)]
              \o (IF results # <<>> THEN <<Line("verify", 0)>> ELSE <<>>))
    /\ result' = [status |-> "Success", logs |-> captured']
    /\ pc' = "done"
    /\ UNCHANGED <<cfgVars, auxVars, replayVars, df, demoVars, btVars, cycleVars, fos, risk, stdout,
                   fosSat, fosCalls>>
    /\ UNCHANGED <<fosVars, sensorVars>>

----------------------------------------------------------------------------
(* The HTTP routes of app_fastapi.py *)

\* the fields a JSON object body may carry
NoBody ==
    [kind |-> "empty", fields |-> {}, dataset_file |-> "",
     rainfall_intensity |-> 0, rainfall_duration |-> 0]

Object(fields) == [NoBody EXCEPT !.kind = "object", !.fields = fields]

NoRequest == [method |-> "none", path |-> "", body |-> NoBody]

NoResponse == [code |-> 0, body |-> Pending]

\* the routes with a handler: @app.get / @app.post
Routes ==
    {[method |-> "GET", path |-> "/"],
     [method |-> "GET", path |-> "/api/health"],
     [method |-> "POST", path |-> "/api/upload"],
     [method |-> "POST", path |-> "/api/backtest"],
     [method |-> "POST", path |-> "/api/live_sim"],
     [method |-> "POST", path |-> "/api/quick_demo"]}

\* the entry point a route's handler calls
Handler(path) ==
    CASE path = "/api/backtest" -> "backtest"
      [] path = "/api/live_sim" -> "live"
      [] path = "/api/quick_demo" -> "demo"
      [] OTHER -> "off"

\* the files of UPLOAD_DIR
Uploads(name) ==
    CASE name = "grid.csv" -> GridFile(<<CellA>>, {"2023-06-01", "2023-07-01"}, <<>>)
      [] name = "bad.csv" -> BadFile
      [] name = "empty.csv" -> EmptyFile
      [] OTHER -> NoFile

\* what the framework answers before, or instead of, the handler's result:
\* 404 without a route on the path, 405 with one of another method, 422 when
\* the body is not the JSON object that `data: dict` declares, 500 when the
\* handler raises (data["dataset_file"] is a KeyError), else 200
StatusOf(req) ==
    IF \A r \in Routes : r.path # req.path THEN 404
    ELSE IF \A r \in Routes : r.path = req.path => r.method # req.method THEN 405
    ELSE IF req.method = "GET" THEN 200
    ELSE IF req.body.kind # "object" THEN 422
    ELSE IF "dataset_file" \notin req.body.fields THEN 500
    ELSE 200

\* max_cycles=5, the default of run_live_simulation, which live_sim leaves
DefaultCycles == 5

\* the request is answered without an entry point being called
ApiReject ==
    /\ pc = "http"
    /\ StatusOf(request) # 200
    /\ response' = [code |-> StatusOf(request), body |-> Pending]
    /\ pc' = "responded"
    /\ UNCHANGED <<cfgVars, oPc, oPrinted, oResult, replayVars, oCaptured, df,
                   demoVars, btVars, cycleVars, fos, risk, stdout, captured,
                   console, result, printed, fosSat, fosCalls>>
    /\ UNCHANGED <<fosVars, sensorVars>>

\* lines 24-26
ApiHealth ==
    /\ pc = "http"
    /\ StatusOf(request) = 200
    /\ request.path = "/api/health"
    /\ response' = [code |-> 200, body |-> [status |-> "OK", logs |-> <<>>]]
    /\ pc' = "responded"
    /\ UNCHANGED <<cfgVars, oPc, oPrinted, oResult, replayVars, oCaptured, df,
                   demoVars, btVars, cycleVars, fos, risk, stdout, captured,
                   console, result, printed, fosSat, fosCalls>>
    /\ UNCHANGED <<fosVars, sensorVars>>

\* lines 35-45: the handler calls its entry point
ApiCall ==
    /\ pc = "http"
    /\ StatusOf(request) = 200
    /\ Handler(request.path) # "off"
    /\ pc' = "enter"
    /\ UNCHANGED <<cfgVars, auxVars, replayVars, oCaptured, df,
                   demoVars, btVars, cycleVars, fos, risk, stdout, captured,
                   console, result, printed, fosSat, fosCalls>>
    /\ UNCHANGED <<fosVars, sensorVars>>

\* lines 37, 41, 45: the handler returns what the entry point returned
ApiRespond ==
    /\ request # NoRequest
    /\ pc = "done"
    /\ response' = [code |-> 200, body |-> result]
    /\ pc' = "responded"
    /\ UNCHANGED <<cfgVars, oPc, oPrinted, oResult, replayVars, oCaptured, df,
                   demoVars, btVars, cycleVars, fos, risk, stdout, captured,
                   console, result, printed, fosSat, fosCalls>>
    /\ UNCHANGED <<fosVars, sensorVars>>

----------------------------------------------------------------------------
(* A second web-mode request served by another worker thread of the process:
   its statements interleave with the run's, and sys.stdout is shared *)

\* the lines the second request prints before it returns
MaxOtherLines == 2

\* what the second request leaves alone: the locals of the run
runLocals ==
    <<cfgVars, response, replayVars, df, demoVars, btVars, pc, cycleVars, fos,
      risk, result, printed, fosSat, fosCalls>>

\* lines 22-24: captured_output = io.StringIO(); sys.stdout = captured_output
OtherEnter ==
    /\ oPc = "idle"
    /\ oPc' = "run"
    /\ stdout' = "other"
    /\ UNCHANGED <<runLocals, oCaptured, oPrinted, oResult, captured, console>>
    /\ UNCHANGED <<fosVars, sensorVars>>

\* a print(...) of the second request: the line goes where sys.stdout points
OtherPrint ==
    /\ oPc = "run"
    /\ Len(oPrinted) < MaxOtherLines
    /\ LET line == Line("other", Len(oPrinted) + 1) IN
          /\ oPrinted' = Append(oPrinted, line)
          /\ oCaptured' = IF stdout = "other" THEN Append(oCaptured, line) ELSE oCaptured
          /\ captured' = IF stdout = "captured" THEN Append(captured, line) ELSE captured
          /\ console' = IF stdout = "console" THEN Append(console, line) ELSE console
    /\ UNCHANGED <<runLocals, oPc, oResult, stdout>>
    /\ UNCHANGED <<fosVars, sensorVars>>

\* lines 151-159: sys.stdout = sys.__stdout__, return the captured text
OtherReturn ==
    /\ oPc = "run"
    /\ Len(oPrinted) = MaxOtherLines
    /\ stdout' = "console"
    /\ oResult' = [status |-> "Success", logs |-> oCaptured]
    /\ oPc' = "done"
    /\ UNCHANGED <<runLocals, oPrinted, oCaptured, captured, console>>
    /\ UNCHANGED <<fosVars, sensorVars>>

----------------------------------------------------------------------------
(* The same call made a second time in the same process *)

\* the caller calls the entry point again with the same arguments: a new
\* frame with a new captured_output (line 22) or logs buffer; every other
\* local is assigned by the call before it is read, and sys.stdout is the
\* process's
CallAgain ==
    /\ replay
    /\ run = 1
    /\ pc = "done"
    /\ run' = 2
    /\ pc' = "enter"
    /\ result' = Pending
    /\ captured' = <<>>
    /\ printed' = <<>>
    /\ sleeps' = 0
    /\ trace' = <<>>
    /\ satWrites' = 0
    /\ fosCalls' = 0
    /\ UNCHANGED <<cfgVars, auxVars, firstRun, oCaptured, df, demoVars, btVars, cycle,
                   readings, clean, rain_grid, saturation, fos, risk, alert, stdout,
                   console, satPrev, fosSat>>
    /\ UNCHANGED <<fosVars, sensorVars>>

----------------------------------------------------------------------------
(* Specifications *)

\* the harnesses that a specification does not run
FosIdle ==
    /\ fArgs = None /\ fSat = None /\ fOut = None
    /\ fPrevSat = None /\ fPrevOut = None

SensorIdle ==
    /\ sReadings = <<>> /\ sClean = <<>> /\ sField = <<>> /\ sPc = "off"

RunStartAt(at, e, d, w, m, h, f) ==
    /\ entry = e /\ dataset = d /\ web_mode = w /\ max_cycles = m
    /\ horizon = h /\ fusion = f
    /\ df = NoFile /\ hotspots = <<>> /\ alerts = <<>>
    /\ results = <<>> /\ months = <<>>
    /\ pc = at /\ cycle = 0
    /\ readings = <<>> /\ clean = <<>> /\ rain_grid = <<>> /\ saturation = <<>>
    /\ fos = <<>> /\ risk = <<>> /\ alert = FALSE
    /\ stdout = "console" /\ captured = <<>> /\ console = <<>>
    /\ result = Pending /\ sleeps = 0 /\ printed = <<>>
    /\ trace = <<>> /\ satWrites = 0 /\ satPrev = <<>> /\ fosSat = <<>>
    /\ fosCalls = 0

\* the call of an entry point
RunStart(e, d, w, m, h, f) == RunStartAt("enter", e, d, w, m, h, f)

\* no HTTP request, no repetition, no second request
NoAux ==
    /\ request = NoRequest /\ response = NoResponse /\ replay = FALSE
    /\ run = 1 /\ firstRun = <<>>
    /\ oPc = "off" /\ oCaptured = <<>> /\ oPrinted = <<>> /\ oResult = Pending

NoExtras == fallback = NoFile /\ threshold = RISK_THRESHOLD /\ NoAux

RunIdle == RunStart("off", NoFile, FALSE, None, 0, "engine") /\ NoExtras

\* the largest max_cycles argument that is followed
MaxCycles == 2

\* the number of cycles of run_live_loop that are followed
CliCycles == 12

\* a call of run_live_simulation
LiveInit ==
    \E d \in {NoFile, BadFile, EmptyFile, GridFile(<<CellA, CellB>>, {}, <<>>)},
       w \in BOOLEAN, m \in (0..MaxCycles) \cup {None}, f \in {"engine", "stub"} :
        RunStart("live", d, w, m, MaxCycles, f) /\ NoExtras

\* a call of run_live_loop
CliInit ==
    /\ \E d \in {NoFile, GridFile(<<CellA>>, {}, <<>>)} :
          RunStart("cli", d, FALSE, None, CliCycles, "engine") /\ NoExtras
    /\ FosIdle
    /\ SensorIdle

CycleNext ==
    \/ BeginCycle
    \/ GenReadings
    \/ Filter
    \/ Interpolate
    \/ UpdateSaturation
    \/ ComputeFos
    \/ RiskAndAlert

LiveNext ==
    \/ LiveEnter
    \/ LiveMissing
    \/ LiveLoad
    \/ LiveLoadFails
    \/ LiveStop
    \/ InterpolateFails
    \/ CycleNext

CliNext == CliMissing \/ CliLoad \/ CycleNext

\* the month columns a table may have
BothMonths == {"2023-06-01", "2023-07-01"}

\* the configured risk thresholds that are followed
Thresholds == {RISK_THRESHOLD, 5000}

\* a call of run_demo_event
DemoInit ==
    \E d \in {NoFile, BadFile, GridFile(<<CellA, CellB>>, {}, <<>>),
               GridFile(<<CellA, CellB>>, BothMonths, <<0, 600>>)},
       w \in BOOLEAN, th \in Thresholds :
        /\ RunStart("demo", d, w, None, 0, "engine")
        /\ fallback = NoFile
        /\ threshold = th
        /\ NoAux

\* a call of backtest_event
BtInit ==
    \E d \in {NoFile, BadFile, GridFile(<<CellA, CellB>>, {}, <<>>),
               GridFile(<<CellA, CellB>>, {"2023-07-01"}, <<>>),
               GridFile(<<CellA, CellB>>, BothMonths, <<0, 600>>)},
       fb \in {NoFile, GridFile(<<CellA>>, BothMonths, <<>>)} :
        /\ RunStart("backtest", d, FALSE, None, 0, "engine")
        /\ fallback = fb
        /\ threshold = RISK_THRESHOLD
        /\ NoAux

DemoNext ==
    \/ DemoEnter
    \/ DemoMissing
    \/ DemoLoad
    \/ DemoLoadFails
    \/ DemoPhysics
    \/ DemoRisk
    \/ DemoHotspots
    \/ DemoAlerts
    \/ DemoMetrics
    \/ DemoHeatmap
    \/ DemoHeatmapFails

BtNext ==
    \/ BtEnter
    \/ BtNotFound
    \/ BtLoad
    \/ BtLoadFails
    \/ BtMonth
    \/ BtSummary

\* a call of one of the three entry points
Init ==
    /\ LiveInit \/ DemoInit \/ BtInit
    /\ FosIdle
    /\ SensorIdle

Next == LiveNext \/ DemoNext \/ BtNext

Spec == Init /\ [][Next]_vars

\* the number of cells of the demonstration grid
DemoCells == 12

\* cohesions that put the design-storm risk on both sides of the threshold
DemoCohesion == <<0, 300000, 400000>>

DemoGrid(n) ==
    [i \in 1..n |-> [CellA EXCEPT !.c = DemoCohesion[(i % 3) + 1], !.lat = 3100 + i]]

\* a call of run_demo_event on the demonstration grid
HotspotInit ==
    /\ \E d \in {NoFile, BadFile, GridFile(<<CellA, CellB>>, {}, <<>>),
                  GridFile(DemoGrid(DemoCells), {}, <<>>)},
          w \in BOOLEAN, th \in Thresholds :
           /\ RunStart("demo", d, w, None, 0, "engine")
           /\ fallback = NoFile
           /\ threshold = th
           /\ NoAux
    /\ FosIdle
    /\ SensorIdle

SpecDemo == HotspotInit /\ [][DemoNext]_vars

\* the number of cycles followed on the alert grids
AlertCycles == 1

\* the grid sizes on which one cell is exactly, or more than, 5 % of the grid
AlertSizes == {19, 20}

\* a cell that is unstable at every saturation, and the stable cell
WeakCell == [CellA EXCEPT !.c = 0]

\* a grid of n cells of which the first u are weak
AlertGrid(n, u) == [i \in 1..n |-> IF i <= u THEN WeakCell ELSE CellB]

\* a call of run_live_simulation on a grid with zero, one or two weak cells
AlertInit ==
    /\ \E d \in {NoFile, BadFile, EmptyFile}
                 \cup {GridFile(AlertGrid(n, u), {}, <<>>) : n \in AlertSizes, u \in 0..2},
          w \in BOOLEAN, m \in (0..AlertCycles) \cup {None} :
           RunStart("live", d, w, m, AlertCycles, "engine") /\ NoExtras
    /\ FosIdle
    /\ SensorIdle

SpecAlert == AlertInit /\ [][LiveNext]_vars

\* the number of cycles of a call that is made twice
ReplayCycles == 2

\* run_live_simulation (as the API calls it) or backtest_event, to be called
\* twice
ReplayInit ==
    /\ \/ \E d \in {NoFile, BadFile, EmptyFile, GridFile(<<CellA, CellB>>, {}, <<>>)},
             m \in 0..ReplayCycles, f \in {"engine", "stub"} :
              RunStart("live", d, TRUE, m, ReplayCycles, f)
       \/ \E d \in {NoFile, BadFile, GridFile(<<CellA, CellB>>, {}, <<>>),
                     GridFile(<<CellA, CellB>>, BothMonths, <<>>)} :
              RunStart("backtest", d, FALSE, None, 0, "engine")
    /\ fallback = NoFile /\ threshold = RISK_THRESHOLD
    /\ request = NoRequest /\ response = NoResponse /\ replay = TRUE
    /\ run = 1 /\ firstRun = <<>>
    /\ oPc = "off" /\ oCaptured = <<>> /\ oPrinted = <<>> /\ oResult = Pending
    /\ FosIdle
    /\ SensorIdle

ReplayNext == LiveNext \/ BtNext \/ CallAgain

SpecReplay == ReplayInit /\ [][ReplayNext]_vars

\* the bodies of the requests that are sent
ApiBodies ==
    {NoBody, [NoBody EXCEPT !.kind = "notjson"], Object({}),
     [Object({"rainfall_duration"}) EXCEPT !.rainfall_duration = 24]}
    \cup {[Object({"dataset_file"}) EXCEPT !.dataset_file = n] :
             n \in {"grid.csv", "bad.csv", "empty.csv", "none.csv"}}
    \cup {[Object({"rainfall_intensity", "rainfall_duration"})
             EXCEPT !.rainfall_intensity = x, !.rainfall_duration = 24] :
             x \in {0 - 10, 0, 50, 250, 500, 1000}}

\* a request arrives
ApiInit ==
    /\ \E m \in {"GET", "POST"}, b \in ApiBodies,
          p \in {"/api/simulate", "/api/health", "/api/backtest", "/api/live_sim",
                 "/api/quick_demo", "/api/invalid_route"} :
          /\ request = [method |-> m, path |-> p, body |-> b]
          /\ RunStartAt("http", Handler(p), Uploads(b.dataset_file),
                        Handler(p) \in {"live", "demo"},
                        IF Handler(p) = "live" THEN DefaultCycles ELSE None,
                        DefaultCycles, "engine")
    /\ fallback = NoFile /\ threshold = RISK_THRESHOLD
    /\ response = NoResponse /\ replay = FALSE
    /\ run = 1 /\ firstRun = <<>>
    /\ oPc = "off" /\ oCaptured = <<>> /\ oPrinted = <<>> /\ oResult = Pending
    /\ FosIdle
    /\ SensorIdle

ApiNext ==
    \/ ApiReject
    \/ ApiHealth
    \/ ApiCall
    \/ ApiRespond
    \/ LiveNext
    \/ DemoNext
    \/ BtNext

SpecApi == ApiInit /\ [][ApiNext]_vars

\* the cycles of a run that overlaps another request
WebCycles == 1

\* two web-mode requests are served at the same time
WebInit ==
    /\ \/ \E d \in {NoFile, BadFile, EmptyFile, GridFile(<<CellA, CellB>>, {}, <<>>)},
             m \in 0 .. WebCycles :
             RunStart("live", d, TRUE, m, WebCycles, "engine")
       \/ \E d \in {NoFile, BadFile, GridFile(<<CellA, CellB>>, {}, <<0, 600>>)} :
             RunStart("demo", d, TRUE, None, 0, "engine")
    /\ fallback = NoFile /\ threshold = RISK_THRESHOLD
    /\ request = NoRequest /\ response = NoResponse /\ replay = FALSE
    /\ run = 1 /\ firstRun = <<>>
    /\ oPc = "idle" /\ oCaptured = <<>> /\ oPrinted = <<>> /\ oResult = Pending
    /\ FosIdle
    /\ SensorIdle

WebNext ==
    \/ LiveNext
    \/ DemoNext
    \/ OtherEnter
    \/ OtherPrint
    \/ OtherReturn

SpecWeb == WebInit /\ [][WebNext]_vars

SpecCli == CliInit /\ [][CliNext]_vars

----------------------------------------------------------------------------
(* Harness of the sensors: one cycle's readings are filtered by the engine *)
(* and interpolated over the coordinates of a three-cell grid.             *)

MaxReadings == 4

ReadingVals == {0, 180, 200, 220, 300, 99990}

HarnessLat == <<3110, 3115, 3120>>

HarnessLon == <<7710, 7715, 7700>>

Station(i) == stations_meta[((i - 1) % 3) + 1]

SensorInit ==
    /\ \E n \in 0..MaxReadings :
          \E v \in [1..n -> ReadingVals] :
             sReadings = [i \in 1..n |-> Reading(Station(i), v[i])]
    /\ sClean = <<>>
    /\ sField = <<>>
    /\ sPc = "filter"
    /\ FosIdle
    /\ RunIdle

HarnessFilter ==
    /\ sPc = "filter"
    /\ sClean' = EngineFilter(sReadings)
    /\ sPc' = "interp"
    /\ UNCHANGED <<sReadings, sField>>
    /\ UNCHANGED <<fosVars, runVars>>

HarnessInterp ==
    /\ sPc = "interp"
    /\ sField' = RainField(sClean, HarnessLat, HarnessLon)
    /\ sPc' = "done"
    /\ UNCHANGED <<sReadings, sClean>>
    /\ UNCHANGED <<fosVars, runVars>>

SensorNext == HarnessFilter \/ HarnessInterp

----------------------------------------------------------------------------
(* Harness of the stability model: one cell, called again and again with   *)
(* the same static arguments and a fresh saturation.                       *)

SlopeInputs == {0 - 100, 1, 300, 450, 600, 900}

CohesionInputs == {0 - 500000, 0, 1000000, 2000000}

PhiInputs == {0 - 30, 0, 30}

KsatInputs == {10000, 100000}

GammaInputs == {0, 1800}

RainInputs == {0, 500, 99990}

HoursInputs == {6, 12}

SatInputs == {0, 50, 200, 500, 900, 1000}

FosInit ==
    /\ fArgs \in [slope : SlopeInputs, c : CohesionInputs, phi : PhiInputs,
                  gamma : GammaInputs, depth : {2000}, ksat : KsatInputs,
                  rain : RainInputs, hours : HoursInputs]
    /\ fSat = None
    /\ fOut = None
    /\ fPrevSat = None
    /\ fPrevOut = None
    /\ SensorIdle
    /\ RunIdle

CallFos(s) ==
    /\ fSat' = s
    /\ fOut' = compute_fos_vectorized(
                   <<fArgs.slope>>,
                   [c |-> <<fArgs.c>>, phi |-> <<fArgs.phi>>,
                    gamma |-> <<fArgs.gamma>>, depth |-> <<fArgs.depth>>,
                    ksat |-> <<fArgs.ksat>>],
                   <<s>>, fArgs.rain, fArgs.hours)[1]
    /\ fPrevSat' = fSat
    /\ fPrevOut' = fOut
    /\ UNCHANGED fArgs
    /\ UNCHANGED <<sensorVars, runVars>>

FosNext == \E s \in SatInputs : CallFos(s)

SpecFos == FosInit /\ [][FosNext]_vars

SpecSensors == SensorInit /\ [][SensorNext]_vars

----------------------------------------------------------------------------
(* Properties of the saturation tracker *)

\* C1 (as stated): after the saturation update of every cycle each cell's
\* saturation lies in [0.05, 1.0] and equals
\* clamp(previous * 0.985 + rain / 100 * 0.08, 0.05, 1.0) of that cell's own
\* previous value and rainfall.
C1_SaturationClamped ==
    pc \in {"fos", "risk"} =>
        \A i \in DOMAIN saturation :
            /\ saturation[i] # NaN
            /\ saturation[i] >= 50
            /\ saturation[i] <= 1000
            /\ rain_grid[i] # NaN
            /\ saturation[i] =
                 Clip((satPrev[i] * 985) \div 1000 + (rain_grid[i] * 8) \div 100, 50, 1000)

----------------------------------------------------------------------------
(* Properties of the cycle loop *)

\* the dataset of the run exists, loads and has rows
Available == dataset.file /\ dataset.loads /\ dataset.cells # <<>>

\* the cycle headers printed so far
CycleLines == SelectSeq(printed, LAMBDA l : l[1] = "cycle")

\* the steps a run has left in its cycle
StepsLeft ==
    CASE pc = "enter" -> 9 [] pc = "check" -> 8 [] pc = "gen" -> 6
      [] pc = "filter" -> 5 [] pc = "interp" -> 4 [] pc = "sat" -> 3
      [] pc = "fos" -> 2 [] pc = "risk" -> 1 [] OTHER -> 0

\* what a bounded run has left to do: it falls with every step
Remaining ==
    IF pc = "done" THEN 0 - 1 ELSE (max_cycles - cycle) * 10 + StepsLeft

\* C5: a run of run_live_simulation with max_cycles = n on an available
\* dataset executes exactly n cycles, numbered 1..n in order, without a delay
\* between cycles in web mode, then stops and returns; cycle n+1 never starts;
\* every step of the bounded run brings its return nearer, and only the
\* unbounded run never returns.
C5_ExactlyNCycles ==
    /\ []((entry = "live" /\ Available) =>
            /\ CycleLines = [k \in 1..cycle |-> Line("cycle", k)]
            /\ web_mode => sleeps = 0
            /\ max_cycles = None => pc # "done"
            /\ max_cycles # None =>
                  /\ cycle <= max_cycles
                  /\ pc = "done" =>
                        /\ cycle = max_cycles
                        /\ ~web_mode => sleeps = max_cycles
                        /\ result = IF web_mode
                                    THEN [status |-> "Success", logs |-> printed]
                                    ELSE PyNone)
    /\ [][(entry = "live" /\ Available /\ max_cycles # None) =>
              (Remaining' < Remaining /\ Remaining' >= 0 - 1)]_vars

\* a bounded web run over the whole horizon has returned
C5_Witness ==
    /\ entry = "live" /\ Available
    /\ web_mode
    /\ max_cycles = MaxCycles
    /\ pc = "done"
    /\ cycle = MaxCycles
    /\ result.status = "Success"

\* the components of a cycle, in their order
Pipeline == <<"filter", "interp", "sat", "fos", "risk">>

\* C8: in every cycle the components run in the order Filter, Interpolate,
\* Saturation Tracker, Stability Model, Risk Generator; the saturation vector
\* is written exactly once per cycle, only by the saturation update; the
\* Stability Model of cycle n reads the saturation that the update of cycle n
\* produced from the saturation left by cycle n-1.
C8_StrictPipeline ==
    /\ [](entry = "live" =>
            /\ Len(trace) <= Len(Pipeline)
            /\ trace = SubSeq(Pipeline, 1, Len(trace))
            /\ (pc = "loop" /\ cycle >= 1) => (trace = Pipeline /\ satWrites = 1)
            /\ (pc \in {"gen", "filter", "interp", "sat"}) => (satWrites = 0 /\ saturation = satPrev)
            /\ (pc \in {"risk", "loop"} /\ cycle >= 1) =>
                  /\ fosSat = saturation
                  /\ saturation =
                       [i \in DOMAIN satPrev |-> SatCell(satPrev[i], rain_grid[i])])
    /\ [][(entry = "live" /\ saturation' # saturation) =>
              \/ pc = "sat" /\ pc' = "fos"
              \/ pc = "check" /\ cycle' = 0]_vars

\* the second cycle is complete and its update moved the saturation
C8_Witness ==
    /\ entry = "live"
    /\ pc = "loop"
    /\ cycle = 2
    /\ trace = Pipeline
    /\ saturation # satPrev
    /\ fosSat = saturation

----------------------------------------------------------------------------
(* Properties of the entry points *)

\* C6 (as stated): every entry point, on every outcome and in both modes,
\* returns a status (Success or Error) together with the log accumulated up
\* to that point.
C6_StatusAndLogAlways ==
    pc = "done" =>
        /\ result.status \in {"Success", "Error"}
        /\ result.logs = printed

\* C6 (amended): backtest_event always, and run_live_simulation and
\* run_demo_event in web mode, return a status (Success or Error) with the
\* log accumulated so far; in non-web mode the two write the log to the
\* console and return None when the dataset is missing and on normal
\* completion, and Error with an empty log after an exception.  No exception
\* reaches the caller, and after an exception the run has halted: no further
\* cycle is executed.
C6_StatusAndLogWhenCaptured ==
    /\ [](pc = "done" =>
            /\ result.status # "raised"
            /\ stdout = "console"
            /\ (web_mode \/ entry = "backtest") =>
                  /\ result.status \in {"Success", "Error"}
                  /\ result.logs = printed
            /\ (entry \in {"live", "demo"} /\ ~web_mode) =>
                  /\ console = printed
                  /\ \/ result = PyNone
                     \/ /\ result = [status |-> "Error", logs |-> <<>>]
                        /\ printed[Len(printed)] = Line("error", 0))
    /\ [][pc = "done" => (pc' = "done" /\ cycle' = cycle /\ result' = result)]_vars

\* an exception in the first cycle of a web run: Error, with the partial log
C6_Witness ==
    /\ entry = "live"
    /\ web_mode
    /\ pc = "done"
    /\ cycle = 1
    /\ result.status = "Error"
    /\ result.logs = printed
    /\ Len(printed) > 4

\* the grid file is missing or does not load
FileUnavailable ==
    \/ entry \in {"live", "demo"} /\ (~dataset.file \/ ~dataset.loads)
    \/ entry = "backtest" /\ (~Chosen.file \/ ~Chosen.loads)

\* the table loads but has neither historical rainfall column
MonthsUnavailable ==
    /\ entry = "backtest"
    /\ Chosen.file
    /\ Chosen.loads
    /\ available_months(Chosen) = <<>>

\* C7 (as stated): when the grid dataset or its required columns, the
\* historical rainfall columns of backtest_event included, are missing, the
\* entry point returns status Error with the accumulated log, computes no FoS
\* and never reports Success.
C7_ErrorWhenUnavailable ==
    (pc = "done" /\ (FileUnavailable \/ MonthsUnavailable)) =>
        /\ result.status = "Error"
        /\ result.logs = printed
        /\ fosCalls = 0

\* C7 (amended): when the grid dataset is missing or does not load, no FoS is
\* computed, nothing is raised and Success is never reported: backtest_event,
\* the web-mode runs and every run whose loading raises return Error (with
\* the accumulated log when it is captured), and a non-web run of
\* run_live_simulation or run_demo_event whose dataset is missing returns
\* None.  When only the historical rainfall columns are missing,
\* backtest_event logs it, computes no FoS and returns Success with empty
\* results.
C7_NoSuccessWithoutGrid ==
    /\ FileUnavailable =>
          /\ fosCalls = 0
          /\ pc = "done" =>
                /\ result.status \notin {"Success", "raised"}
                /\ (web_mode \/ entry = "backtest") =>
                      (result.status = "Error" /\ result.logs = printed)
                /\ (entry \in {"live", "demo"} /\ dataset.file) => result.status = "Error"
                /\ (entry \in {"live", "demo"} /\ ~web_mode /\ ~dataset.file) =>
                      result = PyNone
    /\ MonthsUnavailable =>
          /\ fosCalls = 0
          /\ pc = "done" =>
                /\ result = [status |-> "Success", logs |-> printed]
                /\ results = <<>>
                /\ \E k \in DOMAIN printed : printed[k] = Line("nomonths", 0)

\* backtest_event without csv_path and without a grid of its own
C7_Witness ==
    /\ entry = "backtest"
    /\ pc = "done"
    /\ ~dataset.file
    /\ ~fallback.file
    /\ result.status = "Error"
    /\ result.logs = printed
    /\ fosCalls = 0

----------------------------------------------------------------------------
(* Properties of the hotspot selection *)

\* the hotspots and the alerts of the run are made
Alerted == entry = "demo" /\ df.file /\ pc \in {"d_metrics", "d_heatmap", "done"}

\* the cells whose risk is above the threshold
Above == {i \in DOMAIN risk : risk[i] > threshold}

Selected == {hotspots[k] : k \in DOMAIN hotspots}

\* C10: run_demo_event yields exactly min(10, number of cells with risk
\* strictly above the threshold) alerts, one per selected cell; every alerted
\* cell is above the threshold, the alerts are in non-increasing order of
\* risk, no cell left out has a higher risk than a selected one, and without
\* a cell above the threshold there is no alert.
C10_TopTenHotspots ==
    Alerted =>
        /\ Len(alerts) = Min(10, Cardinality(Above))
        /\ Len(hotspots) = Len(alerts)
        /\ Cardinality(Selected) = Len(hotspots)
        /\ Selected \subseteq Above
        /\ \A k \in DOMAIN alerts :
              alerts[k] = generate_sms(df.cells[hotspots[k]].lat, df.cells[hotspots[k]].lon,
                                       risk[hotspots[k]], fos[hotspots[k]])
        /\ \A k \in 1..(Len(hotspots) - 1) : risk[hotspots[k]] >= risk[hotspots[k + 1]]
        /\ \A i \in DOMAIN risk \ Selected, j \in Selected : risk[i] <= risk[j]
        /\ Above = {} => alerts = <<>>

\* more than ten cells above the threshold, of unequal risks, one of them left
\* out with the risk of the last one selected
C10_Witness ==
    /\ Alerted
    /\ Cardinality(Above) > 10
    /\ Len(alerts) = 10
    /\ risk[hotspots[1]] > risk[hotspots[10]]
    /\ \E i \in Above \ Selected : risk[i] = risk[hotspots[10]]

----------------------------------------------------------------------------
(* Properties of the cycle alert *)

\* the cells whose FoS is a number strictly below 1
UnstableCells == {i \in DOMAIN fos : fos[i] # NaN /\ fos[i] < 100}

\* the risk step of a cycle is done
CycleDone == entry \in {"live", "cli"} /\ pc = "loop" /\ cycle >= 1

\* C11: the cycle-level alert is raised, and its line printed, if and only if
\* the proportion of cells with FoS strictly below 1 strictly exceeds 0.05
\* (more than one cell in twenty); at exactly 0.05 or less there is no alert.
C11_AlertIffAboveFivePercent ==
    CycleDone =>
        /\ alert <=> (20 * Cardinality(UnstableCells) > Len(fos))
        /\ alert <=> (printed[Len(printed)] = Line("alert", 0))
        /\ ~alert => printed[Len(printed)] = Line("unstable", 0)

\* one unstable cell in twenty: exactly 0.05, no alert
C11_Witness ==
    /\ CycleDone
    /\ Len(fos) = 20
    /\ Cardinality(UnstableCells) = 1
    /\ ~alert

----------------------------------------------------------------------------
(* Properties of the risk transform *)

\* C12 (as stated): in live monitoring, in the demo and in the backtest the
\* risk of every cell lies in [0, 1], does not rise with FoS, is 0.5 exactly
\* at FoS = 1 and is above 0.5 if and only if FoS < 1.
C12_LogisticCentredAtOne ==
    \A i \in DOMAIN risk :
        fos[i] # NaN =>
            /\ risk[i] >= 0
            /\ risk[i] <= 10000
            /\ fos[i] = 100 => risk[i] = 5000
            /\ risk[i] > 5000 <=> fos[i] < 100
            /\ \A j \in DOMAIN risk :
                  (fos[j] # NaN /\ fos[i] <= fos[j]) => risk[i] >= risk[j]

----------------------------------------------------------------------------
(* Properties of a repeated call *)

----------------------------------------------------------------------------
(* Properties of the saturation handed to the stability model *)

\* C15 (as stated): in every entry point the saturation of every cell handed
\* to compute_fos_vectorized lies in [0.05, 1.0].
C15_SaturationInRange ==
    fosCalls > 0 =>
        \A i \in DOMAIN fosSat :
            fosSat[i] # NaN /\ fosSat[i] >= 50 /\ fosSat[i] <= 1000

----------------------------------------------------------------------------
(* Properties of overlapping web-mode runs *)

\* C16 (as stated): a web-mode run returns in its logs exactly the lines it
\* printed itself, also when another web-mode run overlaps it, and sys.stdout
\* is the original stream again once the runs have returned.
C16_LogsAreOwnLines ==
    /\ (web_mode /\ pc = "done") => result.logs = printed
    /\ oPc = "done" => oResult.logs = oPrinted
    /\ (web_mode /\ pc = "done" /\ oPc \in {"off", "idle", "done"}) =>
           stdout = "console"

----------------------------------------------------------------------------
(* Properties of the HTTP routes *)

\* the request is a valid simulation request
ValidSimulation ==
    /\ request.body.kind = "object"
    /\ {"rainfall_intensity", "rainfall_duration"} \subseteq request.body.fields
    /\ request.body.rainfall_intensity >= 0
    /\ request.body.rainfall_intensity <= 500

\* C14 (as stated): /api/simulate accepts POST only (405 otherwise); a request
\* with a negative intensity or one above 500, without a required field, or
\* with an empty or non-JSON body is rejected with 400 and computes nothing;
\* a valid request is answered 200 with the simulation's output.
C14_SimulateValidates ==
    (pc = "responded" /\ request.path = "/api/simulate") =>
        IF request.method # "POST" THEN response.code = 405
        ELSE IF ValidSimulation
             THEN response.code = 200 /\ response.body.status = "Success"
             ELSE response.code = 400 /\ fosCalls = 0

----------------------------------------------------------------------------
(* Properties of the stability model *)

C9_MonotoneAll ==
    (fPrevSat # None /\ fPrevSat <= fSat) => fOut <= fPrevOut

\* C9 amended: the same, for friction angles of 0 degrees or more.
C9_MonotoneNonNegPhi ==
    (fPrevSat # None /\ fPrevSat <= fSat /\ fArgs.phi >= 0) => fOut <= fPrevOut

\* a rise in saturation that lowered FoS
C9_Witness ==
    /\ fPrevSat # None
    /\ fPrevSat < fSat
    /\ fArgs.phi > 0
    /\ fArgs.c <= 0
    /\ fOut < fPrevOut

----------------------------------------------------------------------------
(* Properties of the sensors *)

\* the k-th smallest of vals, by counting
OrderStat(vals, k) ==
    CHOOSE v \in {vals[i] : i \in DOMAIN vals} :
        /\ Cardinality({i \in DOMAIN vals : vals[i] < v}) < k
        /\ Cardinality({i \in DOMAIN vals : vals[i] <= v}) >= k

C4_FieldDefined ==
    sPc = "done" =>
        LET top == IF sClean = <<>> THEN 0 ELSE SeqMax(Vals(sClean))
        IN  /\ DOMAIN sField = DOMAIN HarnessLat
            /\ \A i \in DOMAIN sField :
                  sField[i] # NaN /\ sField[i] >= 0 /\ sField[i] <= top
            /\ \E i \in DOMAIN sField : sField[i] = top

\* the same, for reading sets that are empty or hold a value above zero
C4_FieldDefinedUnlessAllZero ==
    (sPc = "done" /\ (sClean = <<>> \/ \E i \in DOMAIN sClean : sClean[i].val > 0)) =>
        LET top == IF sClean = <<>> THEN 0 ELSE SeqMax(Vals(sClean))
        IN  /\ \A i \in DOMAIN sField :
                  sField[i] # NaN /\ sField[i] >= 0 /\ sField[i] <= top
            /\ \E i \in DOMAIN sField : sField[i] = top

====
